---- MODULE Spec2Model ----
(***************************************************************************)
(* Model of the answer generation pipeline of application/app.py:          *)
(* the /stream endpoint (stream, complete_stream), the /api/answer         *)
(* endpoint (api_answer), vector store resolution (get_vectorstore), the   *)
(* index load (get_docsearch) and the conversation store operations the    *)
(* handlers and /api/delete_conversation perform on MongoDB.               *)
(*                                                                         *)
(* Python strings are TLA+ strings; TLC evaluates Len, SubSeq and \o on    *)
(* them, so split, replace and os.path.join are computed character by      *)
(* character. Python None is the model value None, a missing dictionary    *)
(* key is Absent.                                                          *)
(***************************************************************************)
EXTENDS Integers, Sequences, FiniteSets, TLC

VARIABLES
    settings,           \* application.core.settings.settings
    openai_api_key,     \* the module attribute openai.api_key
    conversations,      \* conversations_collection: _id -> document
    pc,                 \* per worker: the position of its request
    data,               \* per worker: the request's JSON body
    vectorstore,        \* per worker: the resolved index path
    docs,               \* per worker: passages returned by similarity_search
    source_log_docs,    \* per worker: sources collected for persistence
    messages_combine,   \* per worker: the prompt assembled for the backend
    reponse_full,       \* per worker: accumulated answer (complete_stream)
    llm,                \* per worker: the backend api_answer selected
    chain_output,       \* per worker: the text the chain returned (api_answer)
    result,             \* per worker: result dictionary (api_answer)
    conversation_id,    \* per worker: the local conversation_id
    emitted,            \* per worker: events yielded by complete_stream
    response,           \* per worker: what the endpoint returned
    completion,         \* per worker: the title returned by the summary call
    calls,              \* per worker: external calls attempted, in order
    started,            \* number of requests received so far
    issued              \* number of ObjectIds generated by insert_one so far

vars == <<settings, openai_api_key, conversations, pc, data, vectorstore, docs,
          source_log_docs, messages_combine, reponse_full, llm, chain_output,
          result, conversation_id, emitted, response, completion, calls,
          started, issued>>

None == "<None>"
Absent == "<absent>"

----------------------------------------------------------------------------
(* Python string operations *)

\* str.find(sub, start) with 1-based positions; 0 when sub does not occur
RECURSIVE Find(_, _, _)
Find(s, sub, from) ==
    IF from + Len(sub) - 1 > Len(s) THEN 0
    ELSE IF SubSeq(s, from, from + Len(sub) - 1) = sub THEN from
    ELSE Find(s, sub, from + 1)

\* str.split(sep): the pieces between the non-overlapping occurrences of sep,
\* scanned left to right
RECURSIVE Split(_, _)
Split(s, sep) ==
    LET i == Find(s, sep, 1) IN
    IF i = 0 THEN <<s>>
    ELSE <<SubSeq(s, 1, i - 1)>> \o Split(SubSeq(s, i + Len(sep), Len(s)), sep)

\* str.replace(old, new): every non-overlapping occurrence, left to right
RECURSIVE Replace(_, _, _)
Replace(s, old, new) ==
    LET i == Find(s, old, 1) IN
    IF i = 0 THEN s
    ELSE SubSeq(s, 1, i - 1) \o new \o Replace(SubSeq(s, i + Len(old), Len(s)), old, new)

Contains(s, sub) == Find(s, sub, 1) # 0

\* os.path.join(a, b) on POSIX: an absolute b replaces a, otherwise the two are
\* joined by one separator unless a already ends with it
PathJoin(a, b) ==
    IF Len(b) > 0 /\ SubSeq(b, 1, 1) = "/" THEN b
    ELSE IF a = "" \/ SubSeq(a, Len(a), Len(a)) = "/" THEN a \o b
    ELSE a \o "/" \o b

----------------------------------------------------------------------------
(* Outcomes of calls that may raise *)

Ok(v) == [ok |-> TRUE, value |-> v, error |-> ""]
Raise(e) == [ok |-> FALSE, value |-> "", error |-> e]

----------------------------------------------------------------------------
(* get_vectorstore: collection selector -> index path *)

\* data["active_docs"].split("/")[1] raises IndexError when the selector holds
\* no "/"
get_vectorstore(active_docs) ==
    LET parts == Split(active_docs, "/")
        inner == IF parts[1] = "local"
                 THEN IF Len(parts) < 2 THEN Raise("IndexError")
                      ELSE IF parts[2] = "default" THEN Ok("")
                      ELSE Ok("indexes/" \o active_docs)
                 ELSE Ok("vectors/" \o active_docs)
        chosen == IF active_docs = Absent THEN Ok("")
                  ELSE IF ~inner.ok THEN inner
                  ELSE IF active_docs = "default" THEN Ok("")
                  ELSE inner
    IN  IF chosen.ok THEN Ok(PathJoin("application", chosen.value)) ELSE chosen

\* The path stream() hands to get_docsearch: get_vectorstore when the body
\* holds "active_docs", the empty string otherwise
stream_vectorstore(active_docs) ==
    IF active_docs # Absent THEN get_vectorstore(active_docs) ELSE Ok("")

----------------------------------------------------------------------------
(* History budgeting and prompt assembly *)

\* llm.get_num_tokens: texts of the model cost one token per character
get_num_tokens(text) == Len(text)

Reverse(seq) == [i \in 1..Len(seq) |-> seq[Len(seq) + 1 - i]]

HasBoth(turn) == turn.prompt # Absent /\ turn.response # Absent

\* Mutant: the scan stops at the first turn that does not fit
RECURSIVE BudgetLoop_StopAtExcluded(_, _, _)
BudgetLoop_StopAtExcluded(hist, tokens_current_history, max) ==
    IF hist = <<>> THEN <<>>
    ELSE LET i == Head(hist) IN
         IF HasBoth(i)
         THEN LET tokens_batch == get_num_tokens(i.prompt) + get_num_tokens(i.response) IN
              IF tokens_current_history + tokens_batch < max
              THEN <<i>> \o BudgetLoop_StopAtExcluded(Tail(hist),
                                tokens_current_history + tokens_batch, max)
              ELSE <<>>
         ELSE BudgetLoop_StopAtExcluded(Tail(hist), tokens_current_history, max)

\* The loop over the reversed history: the turns that are appended to
\* messages_combine, in the order they are appended
RECURSIVE BudgetLoop(_, _, _)
BudgetLoop(hist, tokens_current_history, max) ==
    IF hist = <<>> THEN <<>>
    ELSE LET i == Head(hist) IN
         IF HasBoth(i)
         THEN LET tokens_batch == get_num_tokens(i.prompt) + get_num_tokens(i.response) IN
              IF tokens_current_history + tokens_batch < max
              THEN <<i>> \o BudgetLoop(Tail(hist), tokens_current_history + tokens_batch, max)
              ELSE BudgetLoop(Tail(hist), tokens_current_history, max)
         ELSE BudgetLoop(Tail(hist), tokens_current_history, max)

Msg(role, content) == [role |-> role, content |-> content]

RECURSIVE TurnMessages(_, _)
TurnMessages(turns, response_role) ==
    IF turns = <<>> THEN <<>>
    ELSE <<Msg("user", Head(turns).prompt), Msg(response_role, Head(turns).response)>>
         \o TurnMessages(Tail(turns), response_role)

\* prompts/chat_combine_prompt.txt: instructions followed by the placeholder
chat_combine_template == "Use the context. {summaries}"

RECURSIVE JoinLines(_)
JoinLines(texts) ==
    IF texts = <<>> THEN ""
    ELSE IF Len(texts) = 1 THEN texts[1]
    ELSE texts[1] \o "\n" \o JoinLines(Tail(texts))

PageContents(ds) == [i \in 1..Len(ds) |-> ds[i].page_content]

\* complete_stream: the system message
stream_system_message(ds) ==
    Msg("system", Replace(chat_combine_template, "{summaries}", JoinLines(PageContents(ds))))

\* complete_stream: the history part of messages_combine
stream_history_messages(chat_history, max) ==
    IF Len(chat_history) > 1
    THEN TurnMessages(BudgetLoop(Reverse(chat_history), 0, max), "system")
    ELSE <<>>

stream_messages(question, ds, chat_history, max) ==
    <<stream_system_message(ds)>> \o stream_history_messages(chat_history, max)
        \o <<Msg("user", question)>>

\* api_answer, openai_chat branch: the history part of messages_combine
answer_history_messages(history, max) ==
    IF history # <<>>
    THEN TurnMessages(BudgetLoop(Reverse(history), 0, max), "assistant")
    ELSE <<>>

answer_messages(history, max) ==
    <<Msg("system", chat_combine_template)>> \o answer_history_messages(history, max)
        \o <<Msg("user", "{question}")>>

----------------------------------------------------------------------------
(* api_answer: formatting of the chain's output *)

\* Mutant: the text behind the marker is kept
format_answer_keep_sources(raw) == Replace(raw, "\\n", "\n")

format_answer(raw) == Split(Replace(raw, "\\n", "\n"), "SOURCES:")[1]

----------------------------------------------------------------------------
(* Bounds of the model *)

\* requests received in one behaviour
MaxRequests == 2
\* content increments one streamed completion delivers
MaxLines == 2

Workers == {"w1", "w2"}

----------------------------------------------------------------------------
(* bson ObjectId and the conversations collection *)

HexDigits == {"0", "1", "2", "3", "4", "5", "6", "7", "8", "9",
              "a", "b", "c", "d", "e", "f"}

\* ObjectId(oid) of a string: 24 hexadecimal digits, InvalidId otherwise
ObjectIdValid(oid) ==
    /\ Len(oid) = 24
    /\ \A i \in 1..24 : SubSeq(oid, i, i) \in HexDigits

\* The n-th identifier insert_one generates; identifiers are never reused
NewObjectId(n) ==
    CASE n = 1 -> "65a000000000000000000001"
      [] n = 2 -> "65a000000000000000000002"
      [] n = 3 -> "65a000000000000000000003"
      [] n = 4 -> "65a000000000000000000004"
      [] OTHER -> "65a000000000000000000005"

\* A well-formed identifier no insert_one ever generates, and a malformed one
StrangerId == "65a0000000000000000000ff"
MalformedId == "not-an-object-id"

IssuedIds == {NewObjectId(n) : n \in 1..issued}

Query(prompt, resp, sources) ==
    [prompt |-> prompt, response |-> resp, sources |-> sources]

\* Mutant: the update replaces the queries ($set) instead of appending ($push)
update_one_set(coll, id, q) ==
    IF id \in DOMAIN coll
    THEN [coll EXCEPT ![id].queries = <<q>>]
    ELSE coll

\* Mutant: the update adds the record only if an equal one is not yet there
\* ($addToSet)
update_one_addToSet(coll, id, q) ==
    IF id \in DOMAIN coll /\ \A k \in 1..Len(coll[id].queries) : coll[id].queries[k] # q
    THEN [coll EXCEPT ![id].queries = Append(@, q)]
    ELSE coll

\* update_one({"_id": id}, {"$push": {"queries": q}}): one atomic append to the
\* matching document; without upsert a filter that matches nothing changes
\* nothing and raises nothing
update_one_push(coll, id, q) ==
    IF id \in DOMAIN coll
    THEN [coll EXCEPT ![id].queries = Append(@, q)]
    ELSE coll

\* insert_one(document) under a newly generated _id
insert_one(coll, id, document) ==
    [c \in DOMAIN coll \cup {id} |-> IF c = id THEN document ELSE coll[c]]

\* delete_one({"_id": id})
delete_one(coll, id) == [c \in DOMAIN coll \ {id} |-> coll[c]]

----------------------------------------------------------------------------
(* Requests *)

IdleData == [endpoint |-> "", question |-> "", history |-> <<>>,
             conversation_id |-> None, api_key |-> "", active_docs |-> Absent]

NoResult == [answer |-> "", sources |-> <<>>, conversation_id |-> None]
NoResponse == [status |-> 0, error |-> ""]

Call(op, key) == [op |-> op, api_key |-> key]

InitWith(S) ==
    /\ settings \in S
    /\ openai_api_key = None
    /\ conversations = <<>>
    /\ pc = [w \in Workers |-> "idle"]
    /\ data = [w \in Workers |-> IdleData]
    /\ vectorstore = [w \in Workers |-> ""]
    /\ docs = [w \in Workers |-> <<>>]
    /\ source_log_docs = [w \in Workers |-> <<>>]
    /\ messages_combine = [w \in Workers |-> <<>>]
    /\ reponse_full = [w \in Workers |-> ""]
    /\ llm = [w \in Workers |-> None]
    /\ chain_output = [w \in Workers |-> ""]
    /\ result = [w \in Workers |-> NoResult]
    /\ conversation_id = [w \in Workers |-> None]
    /\ emitted = [w \in Workers |-> <<>>]
    /\ response = [w \in Workers |-> NoResponse]
    /\ completion = [w \in Workers |-> ""]
    /\ calls = [w \in Workers |-> <<>>]
    /\ started = 0
    /\ issued = 0

\* A worker takes a new request when it is not in the middle of one
Free(w) == pc[w] \in {"idle", "done", "error", "aborted"}

KnownEmbeddings == {"openai_text-embedding-ada-002",
                    "huggingface_sentence-transformers/all-mpnet-base-v2",
                    "huggingface_hkunlp/instructor-large",
                    "cohere_medium"}

\* get_docsearch: FAISS.load_local under the configured embeddings; a name
\* matching no branch leaves docsearch unbound. loaded: whether the index at
\* the path could be read
get_docsearch(loaded) ==
    IF settings.EMBEDDINGS_NAME \notin KnownEmbeddings THEN Raise("UnboundLocalError")
    ELSE IF loaded THEN Ok("docsearch") ELSE Raise("RetrievalFailure")

\* The per-request locals as a new request finds them
ResetLocals(w) ==
    /\ docs' = [docs EXCEPT ![w] = <<>>]
    /\ source_log_docs' = [source_log_docs EXCEPT ![w] = <<>>]
    /\ messages_combine' = [messages_combine EXCEPT ![w] = <<>>]
    /\ reponse_full' = [reponse_full EXCEPT ![w] = ""]
    /\ llm' = [llm EXCEPT ![w] = None]
    /\ chain_output' = [chain_output EXCEPT ![w] = ""]
    /\ result' = [result EXCEPT ![w] = NoResult]
    /\ emitted' = [emitted EXCEPT ![w] = <<>>]
    /\ completion' = [completion EXCEPT ![w] = ""]

----------------------------------------------------------------------------
(* POST /stream: stream() and the generator complete_stream() *)

\* stream(): reads the body, resolves the vector store, loads the index and
\* returns the streaming response; an exception here is an HTTP 500
stream(w, question, history, cid, api_key, active_docs, loaded) ==
    /\ Free(w)
    /\ started < MaxRequests
    /\ started' = started + 1
    /\ data' = [data EXCEPT ![w] =
                   [endpoint |-> "stream", question |-> question, history |-> history,
                    conversation_id |-> cid, api_key |-> api_key,
                    active_docs |-> active_docs]]
    /\ conversation_id' = [conversation_id EXCEPT ![w] = cid]
    /\ ResetLocals(w)
    /\ LET vs == stream_vectorstore(active_docs)
           ds == get_docsearch(loaded)
       IN  IF ~vs.ok
           THEN /\ pc' = [pc EXCEPT ![w] = "error"]
                /\ response' = [response EXCEPT ![w] = [status |-> 500, error |-> vs.error]]
                /\ vectorstore' = [vectorstore EXCEPT ![w] = ""]
                /\ calls' = [calls EXCEPT ![w] = <<>>]
           ELSE /\ vectorstore' = [vectorstore EXCEPT ![w] = vs.value]
                /\ calls' = [calls EXCEPT ![w] = <<Call("load_index", None)>>]
                /\ IF ds.ok
                   THEN /\ pc' = [pc EXCEPT ![w] = "stream_begin"]
                        /\ response' = [response EXCEPT ![w] = [status |-> 200, error |-> ""]]
                   ELSE /\ pc' = [pc EXCEPT ![w] = "error"]
                        /\ response' = [response EXCEPT ![w] = [status |-> 500, error |-> ds.error]]
    /\ UNCHANGED <<settings, openai_api_key, conversations, issued>>

\* complete_stream up to the source loop: sets the process-wide key, runs the
\* similarity search (found: its outcome) and starts messages_combine
StreamBegin(w, found) ==
    /\ pc[w] = "stream_begin"
    /\ openai_api_key' = data[w].api_key
    /\ calls' = [calls EXCEPT ![w] = Append(@, Call("similarity_search", None))]
    /\ IF found.ok
       THEN /\ docs' = [docs EXCEPT ![w] = found.value]
            /\ messages_combine' = [messages_combine EXCEPT ![w] =
                                       <<stream_system_message(found.value)>>]
            /\ pc' = [pc EXCEPT ![w] = "sources"]
       ELSE /\ pc' = [pc EXCEPT ![w] = "aborted"]
            /\ UNCHANGED <<docs, messages_combine>>
    /\ UNCHANGED <<settings, conversations, data, vectorstore, source_log_docs,
                   reponse_full, llm, chain_output, result, conversation_id, emitted, response,
                   completion, started, issued>>

Last(seq) == seq[Len(seq)]

HasMetadata(doc) == DOMAIN doc.metadata # {}

\* The event and the logged source of one passage
source_event(doc) ==
    IF HasMetadata(doc)
    THEN [type |-> "source", doc |-> doc.page_content, metadata |-> doc.metadata]
    ELSE [type |-> "source", doc |-> doc.page_content]

stream_source_log(doc) ==
    IF HasMetadata(doc)
    THEN [title |-> Last(Split(doc.metadata.title, "/")), text |-> doc.page_content]
    ELSE [title |-> doc.page_content, text |-> doc.page_content]

\* One iteration of the loop over docs: yields the source event
EmitSource(w) ==
    /\ pc[w] = "sources"
    /\ Len(source_log_docs[w]) < Len(docs[w])
    /\ LET doc == docs[w][Len(source_log_docs[w]) + 1] IN
       /\ emitted' = [emitted EXCEPT ![w] = Append(@, source_event(doc))]
       /\ source_log_docs' = [source_log_docs EXCEPT ![w] = Append(@, stream_source_log(doc))]
    /\ UNCHANGED <<settings, openai_api_key, conversations, pc, data, vectorstore,
                   docs, messages_combine, reponse_full, llm, chain_output, result, conversation_id,
                   response, completion, calls, started, issued>>

\* After the source loop: budgets the history, completes messages_combine and
\* opens the streamed completion, which reads the process-wide key
CallBackend(w, accepted) ==
    /\ pc[w] = "sources"
    /\ Len(source_log_docs[w]) = Len(docs[w])
    /\ messages_combine' = [messages_combine EXCEPT ![w] =
           stream_messages(data[w].question, docs[w], data[w].history,
                           settings.TOKENS_MAX_HISTORY)]
    /\ calls' = [calls EXCEPT ![w] = Append(@, Call("chat_completion", openai_api_key))]
    /\ reponse_full' = [reponse_full EXCEPT ![w] = ""]
    /\ pc' = [pc EXCEPT ![w] = IF accepted THEN "generating" ELSE "aborted"]
    /\ UNCHANGED <<settings, openai_api_key, conversations, data, vectorstore, docs,
                   source_log_docs, llm, chain_output, result, conversation_id, emitted, response,
                   completion, started, issued>>

AnswerEvents(w) == SelectSeq(emitted[w], LAMBDA e : "answer" \in DOMAIN e)

\* Mutant: the delta is yielded but not accumulated
StreamLine_NoAccumulate(w, delta) ==
    /\ pc[w] = "generating"
    /\ IF delta # Absent
       THEN /\ Len(AnswerEvents(w)) < MaxLines
            /\ emitted' = [emitted EXCEPT ![w] = Append(@, [answer |-> delta])]
       ELSE UNCHANGED emitted
    /\ UNCHANGED <<settings, openai_api_key, conversations, pc, data, vectorstore,
                   docs, source_log_docs, messages_combine, reponse_full, llm,
                   chain_output, result, conversation_id, response, completion,
                   calls, started, issued>>

\* One line of the completion: a delta with content is yielded as an answer
\* event and accumulated, a delta without content (delta = Absent) is skipped
StreamLine(w, delta) ==
    /\ pc[w] = "generating"
    /\ IF delta # Absent
       THEN /\ Len(AnswerEvents(w)) < MaxLines
            /\ emitted' = [emitted EXCEPT ![w] = Append(@, [answer |-> delta])]
            /\ reponse_full' = [reponse_full EXCEPT ![w] = @ \o delta]
       ELSE UNCHANGED <<emitted, reponse_full>>
    /\ UNCHANGED <<settings, openai_api_key, conversations, pc, data, vectorstore,
                   docs, source_log_docs, messages_combine, llm, chain_output, result, conversation_id,
                   response, completion, calls, started, issued>>

\* Mutant: a completion that raises is answered with the end event
StreamStop_EndOnFailure(w, finished) ==
    /\ pc[w] = "generating"
    /\ pc' = [pc EXCEPT ![w] = IF finished THEN "persist" ELSE "aborted"]
    /\ emitted' = [emitted EXCEPT ![w] =
                      IF finished THEN @ ELSE Append(@, [type |-> "end"])]
    /\ UNCHANGED <<settings, openai_api_key, conversations, data, vectorstore, docs,
                   source_log_docs, messages_combine, reponse_full, llm, chain_output,
                   result, conversation_id, response, completion, calls, started,
                   issued>>

\* The completion is exhausted (finished) or raises while it is iterated
StreamStop(w, finished) ==
    /\ pc[w] = "generating"
    /\ pc' = [pc EXCEPT ![w] = IF finished THEN "persist" ELSE "aborted"]
    /\ UNCHANGED <<settings, openai_api_key, conversations, data, vectorstore, docs,
                   source_log_docs, messages_combine, reponse_full, llm, chain_output, result,
                   conversation_id, emitted, response, completion, calls, started,
                   issued>>

\* conversation_id is not None: update_one with $push. ObjectId() raises on a
\* malformed identifier before the store is called; written: the store
\* acknowledged the operation
StreamUpdateOne(w, written) ==
    /\ pc[w] = "persist"
    /\ conversation_id[w] # None
    /\ IF ~ObjectIdValid(conversation_id[w])
       THEN /\ pc' = [pc EXCEPT ![w] = "aborted"]
            /\ UNCHANGED <<conversations, calls>>
       ELSE /\ calls' = [calls EXCEPT ![w] = Append(@, Call("update_one", None))]
            /\ IF written
               THEN /\ conversations' = update_one_push(conversations, conversation_id[w],
                           Query(data[w].question, reponse_full[w], source_log_docs[w]))
                    /\ pc' = [pc EXCEPT ![w] = "emit_id"]
               ELSE /\ pc' = [pc EXCEPT ![w] = "aborted"]
                    /\ UNCHANGED conversations
    /\ UNCHANGED <<settings, openai_api_key, data, vectorstore, docs, source_log_docs,
                   messages_combine, reponse_full, llm, chain_output, result, conversation_id, emitted,
                   response, completion, started, issued>>

\* conversation_id is None: the summary call for the title, which reads the
\* process-wide key (title: its outcome)
StreamSummary(w, title) ==
    /\ pc[w] = "persist"
    /\ conversation_id[w] = None
    /\ calls' = [calls EXCEPT ![w] = Append(@, Call("summary", openai_api_key))]
    /\ IF title.ok
       THEN /\ completion' = [completion EXCEPT ![w] = title.value]
            /\ pc' = [pc EXCEPT ![w] = "insert"]
       ELSE /\ pc' = [pc EXCEPT ![w] = "aborted"]
            /\ UNCHANGED completion
    /\ UNCHANGED <<settings, openai_api_key, conversations, data, vectorstore, docs,
                   source_log_docs, messages_combine, reponse_full, llm, chain_output, result,
                   conversation_id, emitted, response, started, issued>>

\* Mutant: the summary exchange is stored as a turn of the new conversation
new_conversation_with_summary(name, q) ==
    [user |-> "local", name |-> name,
     queries |-> <<q, [prompt |-> "Summarise", response |-> name, sources |-> <<>>]>>]

\* The document insert_one stores for a new conversation
new_conversation(name, q) == [user |-> "local", name |-> name, queries |-> <<q>>]

\* insert_one of the new conversation; its _id becomes conversation_id
StreamInsertOne(w, written) ==
    /\ pc[w] = "insert"
    /\ calls' = [calls EXCEPT ![w] = Append(@, Call("insert_one", None))]
    /\ IF written
       THEN /\ issued' = issued + 1
            /\ conversations' = insert_one(conversations, NewObjectId(issued + 1),
                   new_conversation(completion[w],
                       Query(data[w].question, reponse_full[w], source_log_docs[w])))
            /\ conversation_id' = [conversation_id EXCEPT ![w] = NewObjectId(issued + 1)]
            /\ pc' = [pc EXCEPT ![w] = "emit_id"]
       ELSE /\ pc' = [pc EXCEPT ![w] = "aborted"]
            /\ UNCHANGED <<issued, conversations, conversation_id>>
    /\ UNCHANGED <<settings, openai_api_key, data, vectorstore, docs, source_log_docs,
                   messages_combine, reponse_full, llm, chain_output, result, emitted, response,
                   completion, started>>

\* Mutant: the generator goes on to the end event without yielding the id
EmitId_NoYield(w) ==
    /\ pc[w] = "emit_id"
    /\ pc' = [pc EXCEPT ![w] = "emit_end"]
    /\ UNCHANGED <<settings, openai_api_key, conversations, data, vectorstore, docs,
                   source_log_docs, messages_combine, reponse_full, llm, chain_output,
                   result, conversation_id, emitted, response, completion, calls,
                   started, issued>>

\* yield of the id event
EmitId(w) ==
    /\ pc[w] = "emit_id"
    /\ emitted' = [emitted EXCEPT ![w] = Append(@, [type |-> "id", id |-> conversation_id[w]])]
    /\ pc' = [pc EXCEPT ![w] = "emit_end"]
    /\ UNCHANGED <<settings, openai_api_key, conversations, data, vectorstore, docs,
                   source_log_docs, messages_combine, reponse_full, llm, chain_output, result,
                   conversation_id, response, completion, calls, started, issued>>

\* Mutant: the end event is yielded twice
EmitEnd_Twice(w) ==
    /\ pc[w] = "emit_end"
    /\ emitted' = [emitted EXCEPT ![w] = @ \o <<[type |-> "end"], [type |-> "end"]>>]
    /\ pc' = [pc EXCEPT ![w] = "done"]
    /\ UNCHANGED <<settings, openai_api_key, conversations, data, vectorstore, docs,
                   source_log_docs, messages_combine, reponse_full, llm, chain_output,
                   result, conversation_id, response, completion, calls, started,
                   issued>>

\* yield of the end event; the generator returns
EmitEnd(w) ==
    /\ pc[w] = "emit_end"
    /\ emitted' = [emitted EXCEPT ![w] = Append(@, [type |-> "end"])]
    /\ pc' = [pc EXCEPT ![w] = "done"]
    /\ UNCHANGED <<settings, openai_api_key, conversations, data, vectorstore, docs,
                   source_log_docs, messages_combine, reponse_full, llm, chain_output, result,
                   conversation_id, response, completion, calls, started, issued>>

----------------------------------------------------------------------------
(* POST /api/delete_conversation *)

delete_conversation(id) ==
    /\ id \in DOMAIN conversations
    /\ conversations' = delete_one(conversations, id)
    /\ UNCHANGED <<settings, openai_api_key, pc, data, vectorstore, docs,
                   source_log_docs, messages_combine, reponse_full, llm, chain_output, result,
                   conversation_id, emitted, response, completion, calls, started,
                   issued>>

----------------------------------------------------------------------------
(* POST /api/answer: api_answer(); every exception raised inside its try     *)
(* block is answered with bad_request(500, ...)                              *)

Fail(w, e) ==
    /\ pc' = [pc EXCEPT ![w] = "error"]
    /\ response' = [response EXCEPT ![w] = [status |-> 500, error |-> e]]

\* Reads the body, resolves the vector store and loads the index
api_answer(w, question, history, cid, api_key, active_docs, loaded) ==
    /\ Free(w)
    /\ started < MaxRequests
    /\ started' = started + 1
    /\ data' = [data EXCEPT ![w] =
                   [endpoint |-> "answer", question |-> question, history |-> history,
                    conversation_id |-> cid, api_key |-> api_key,
                    active_docs |-> active_docs]]
    /\ conversation_id' = [conversation_id EXCEPT ![w] = cid]
    /\ ResetLocals(w)
    /\ LET vs == get_vectorstore(active_docs)
           ds == get_docsearch(loaded)
       IN  IF ~vs.ok
           THEN /\ Fail(w, vs.error)
                /\ vectorstore' = [vectorstore EXCEPT ![w] = ""]
                /\ calls' = [calls EXCEPT ![w] = <<>>]
           ELSE /\ vectorstore' = [vectorstore EXCEPT ![w] = vs.value]
                /\ calls' = [calls EXCEPT ![w] = <<Call("load_index", None)>>]
                /\ IF ds.ok
                   THEN /\ pc' = [pc EXCEPT ![w] = "select"]
                        /\ response' = [response EXCEPT ![w] = NoResponse]
                   ELSE Fail(w, ds.error)
    /\ UNCHANGED <<settings, openai_api_key, conversations, issued>>

\* The if/elif chain over settings.LLM_NAME and settings.SELF_HOSTED_MODEL
select_llm(cfg) ==
    IF cfg.LLM_NAME = "openai_chat" THEN Ok("openai_chat")
    ELSE IF cfg.LLM_NAME = "openai" THEN Ok("openai")
    ELSE IF cfg.SELF_HOSTED_MODEL THEN Ok("hf")
    ELSE IF cfg.LLM_NAME = "cohere" THEN Ok("cohere")
    ELSE Raise("unknown LLM model")

\* Backend selection; the openai_chat branch also budgets the history and
\* builds p_chat_combine
SelectBackend(w) ==
    /\ pc[w] = "select"
    /\ LET chosen == select_llm(settings) IN
       IF chosen.ok
       THEN /\ llm' = [llm EXCEPT ![w] = chosen.value]
            /\ messages_combine' = [messages_combine EXCEPT ![w] =
                   IF settings.LLM_NAME = "openai_chat"
                   THEN answer_messages(data[w].history, settings.TOKENS_MAX_HISTORY)
                   ELSE <<>>]
            /\ pc' = [pc EXCEPT ![w] = "chain"]
            /\ UNCHANGED response
       ELSE /\ Fail(w, chosen.error)
            /\ UNCHANGED <<llm, chain_output, messages_combine>>
    /\ UNCHANGED <<settings, openai_api_key, conversations, data, vectorstore, docs,
                   source_log_docs, reponse_full, chain_output, result,
                   conversation_id, emitted, completion, calls, started, issued>>

\* The chain construction stage: which chain is built, or the exception its
\* construction raises (p_chat_combine is bound only in the openai_chat branch)
chain_branch(cfg) ==
    IF cfg.LLM_NAME = "openai_chat" THEN Ok("conversational_retrieval")
    ELSE IF cfg.SELF_HOSTED_MODEL THEN Raise("UnboundLocalError")
    ELSE Ok("vectordbqa")

\* The chat_history the conversational chain is run with: the literal []
chain_chat_history(history) == <<>>

\* The calls one run of the chain makes. The conversational chain condenses
\* the question with its question_generator when the chat_history it is given
\* is not empty, then retrieves and answers; VectorDBQA retrieves and answers
chain_calls(branch, chat_history, key) ==
    (IF branch = "conversational_retrieval" /\ chat_history # <<>>
     THEN <<Call("condense_question", key)>>
     ELSE <<>>)
    \o <<Call("chain_retrieval", None), Call("chain_llm", key)>>

\* Chain construction and run, then the formatting of the answer. raw: the
\* outcome of the run, the chain's output text or an exception
RunChain(w, raw) ==
    /\ pc[w] = "chain"
    /\ LET branch == chain_branch(settings) IN
       IF ~branch.ok
       THEN /\ Fail(w, branch.error)
            /\ UNCHANGED <<calls, chain_output, result>>
       ELSE /\ calls' = [calls EXCEPT ![w] =
                   @ \o chain_calls(branch.value, chain_chat_history(data[w].history),
                                    data[w].api_key)]
            /\ IF raw.ok
               THEN /\ chain_output' = [chain_output EXCEPT ![w] = raw.value]
                    /\ result' = [result EXCEPT ![w].answer = format_answer(raw.value)]
                    /\ pc' = [pc EXCEPT ![w] = "answer_sources"]
                    /\ UNCHANGED response
               ELSE /\ Fail(w, raw.error)
                    /\ UNCHANGED <<chain_output, result>>
    /\ UNCHANGED <<settings, openai_api_key, conversations, data, vectorstore, docs,
                   source_log_docs, messages_combine, reponse_full, llm,
                   conversation_id, emitted, completion, started, issued>>

answer_source(doc) ==
    IF HasMetadata(doc)
    THEN [title |-> doc.metadata.title, text |-> doc.page_content]
    ELSE [title |-> doc.page_content, text |-> doc.page_content]

\* The similarity search for the sources of the result (found: its outcome)
AnswerSources(w, found) ==
    /\ pc[w] = "answer_sources"
    /\ calls' = [calls EXCEPT ![w] = Append(@, Call("similarity_search", None))]
    /\ IF found.ok
       THEN /\ docs' = [docs EXCEPT ![w] = found.value]
            /\ result' = [result EXCEPT ![w].sources =
                             [i \in 1..Len(found.value) |-> answer_source(found.value[i])]]
            /\ pc' = [pc EXCEPT ![w] = "answer_persist"]
            /\ UNCHANGED response
       ELSE /\ Fail(w, found.error)
            /\ UNCHANGED <<docs, result>>
    /\ UNCHANGED <<settings, openai_api_key, conversations, data, vectorstore,
                   source_log_docs, messages_combine, reponse_full, llm, chain_output,
                   conversation_id, emitted, completion, started, issued>>

\* conversation_id is not None: update_one with $push
AnswerUpdateOne(w, written) ==
    /\ pc[w] = "answer_persist"
    /\ conversation_id[w] # None
    /\ IF ~ObjectIdValid(conversation_id[w])
       THEN /\ Fail(w, "InvalidId")
            /\ UNCHANGED <<conversations, calls>>
       ELSE /\ calls' = [calls EXCEPT ![w] = Append(@, Call("update_one", None))]
            /\ IF written
               THEN /\ conversations' = update_one_push(conversations, conversation_id[w],
                           Query(data[w].question, result[w].answer, result[w].sources))
                    /\ pc' = [pc EXCEPT ![w] = "answer_return"]
                    /\ UNCHANGED response
               ELSE /\ Fail(w, "StoreFailure")
                    /\ UNCHANGED conversations
    /\ UNCHANGED <<settings, openai_api_key, data, vectorstore, docs, source_log_docs,
                   messages_combine, reponse_full, llm, chain_output, result, conversation_id,
                   emitted, completion, started, issued>>

\* conversation_id is None: llm.predict_messages for the title
AnswerSummary(w, title) ==
    /\ pc[w] = "answer_persist"
    /\ conversation_id[w] = None
    /\ calls' = [calls EXCEPT ![w] = Append(@, Call("summary", data[w].api_key))]
    /\ IF title.ok
       THEN /\ completion' = [completion EXCEPT ![w] = title.value]
            /\ pc' = [pc EXCEPT ![w] = "answer_insert"]
            /\ UNCHANGED response
       ELSE /\ Fail(w, title.error)
            /\ UNCHANGED completion
    /\ UNCHANGED <<settings, openai_api_key, conversations, data, vectorstore, docs,
                   source_log_docs, messages_combine, reponse_full, llm, chain_output, result,
                   conversation_id, emitted, started, issued>>

\* Mutant: a write the store reports as failed has stored the conversation
AnswerInsertOne_WriteThenFail(w, written) ==
    /\ pc[w] = "answer_insert"
    /\ calls' = [calls EXCEPT ![w] = Append(@, Call("insert_one", None))]
    /\ issued' = issued + 1
    /\ conversations' = insert_one(conversations, NewObjectId(issued + 1),
           new_conversation(completion[w],
               Query(data[w].question, result[w].answer, result[w].sources)))
    /\ IF written
       THEN /\ conversation_id' = [conversation_id EXCEPT ![w] = NewObjectId(issued + 1)]
            /\ pc' = [pc EXCEPT ![w] = "answer_return"]
            /\ UNCHANGED response
       ELSE /\ Fail(w, "StoreFailure")
            /\ UNCHANGED conversation_id
    /\ UNCHANGED <<settings, openai_api_key, data, vectorstore, docs, source_log_docs,
                   messages_combine, reponse_full, llm, chain_output, result, emitted,
                   completion, started>>

\* insert_one of the new conversation
AnswerInsertOne(w, written) ==
    /\ pc[w] = "answer_insert"
    /\ calls' = [calls EXCEPT ![w] = Append(@, Call("insert_one", None))]
    /\ IF written
       THEN /\ issued' = issued + 1
            /\ conversations' = insert_one(conversations, NewObjectId(issued + 1),
                   new_conversation(completion[w],
                       Query(data[w].question, result[w].answer, result[w].sources)))
            /\ conversation_id' = [conversation_id EXCEPT ![w] = NewObjectId(issued + 1)]
            /\ pc' = [pc EXCEPT ![w] = "answer_return"]
            /\ UNCHANGED response
       ELSE /\ Fail(w, "StoreFailure")
            /\ UNCHANGED <<issued, conversations, conversation_id>>
    /\ UNCHANGED <<settings, openai_api_key, data, vectorstore, docs, source_log_docs,
                   messages_combine, reponse_full, llm, chain_output, result, emitted, completion,
                   started>>

\* result["conversation_id"] = str(conversation_id); return result
AnswerReturn(w) ==
    /\ pc[w] = "answer_return"
    /\ result' = [result EXCEPT ![w].conversation_id = conversation_id[w]]
    /\ response' = [response EXCEPT ![w] = [status |-> 200, error |-> ""]]
    /\ pc' = [pc EXCEPT ![w] = "done"]
    /\ UNCHANGED <<settings, openai_api_key, conversations, data, vectorstore, docs,
                   source_log_docs, messages_combine, reponse_full, llm, chain_output,
                   conversation_id, emitted, completion, calls, started, issued>>

----------------------------------------------------------------------------
(* What clients send and what the collaborators return *)

Turn(prompt, resp) == [prompt |-> prompt, response |-> resp]

Passage1 == [page_content |-> "alpha", metadata |-> [title |-> "docs/a.md"]]
Passage2 == [page_content |-> "beta", metadata |-> <<>>]

DefaultSettings ==
    [LLM_NAME |-> "openai_chat", SELF_HOSTED_MODEL |-> FALSE,
     TOKENS_MAX_HISTORY |-> 150, EMBEDDINGS_NAME |-> "openai_text-embedding-ada-002"]

Questions == {"q1"}
Histories == {<<Turn("p1", "r1"), Turn("p2", "r2")>>}
ApiKeys == {"k1"}
Selectors == {Absent, "local"}
Retrievals == {Ok(<<Passage1, Passage2>>), Raise("RetrievalFailure")}
Deltas == {"a", "b", Absent}
RawOutputs == {Ok("a"), Ok("a\\nSOURCES: b"), Raise("BackendFailure")}
Titles == {Ok("short title"), Raise("BackendFailure")}

\* Identifiers a client can supply: none, one it was given earlier, a
\* well-formed one that names no conversation, a malformed one
ClientIds == {None, StrangerId, MalformedId} \cup IssuedIds

----------------------------------------------------------------------------
(* The pipeline, one worker: requests are served one after the other *)

StreamStep(w) ==
    \/ \E found \in Retrievals : StreamBegin(w, found)
    \/ EmitSource(w)
    \/ \E accepted \in BOOLEAN : CallBackend(w, accepted)
    \/ \E delta \in Deltas : StreamLine(w, delta)
    \/ \E finished \in BOOLEAN : StreamStop(w, finished)
    \/ \E written \in BOOLEAN : StreamUpdateOne(w, written)
    \/ \E title \in Titles : StreamSummary(w, title)
    \/ \E written \in BOOLEAN : StreamInsertOne(w, written)
    \/ EmitId(w)
    \/ EmitEnd(w)

AnswerStep(w) ==
    \/ SelectBackend(w)
    \/ \E raw \in RawOutputs : RunChain(w, raw)
    \/ \E found \in Retrievals : AnswerSources(w, found)
    \/ \E written \in BOOLEAN : AnswerUpdateOne(w, written)
    \/ \E title \in Titles : AnswerSummary(w, title)
    \/ \E written \in BOOLEAN : AnswerInsertOne(w, written)
    \/ AnswerReturn(w)

Init ==
    InitWith({[DefaultSettings EXCEPT !.LLM_NAME = name] :
                 name \in {"openai_chat", "llama"}})

Next ==
    \/ \E q \in Questions, h \in Histories, cid \in ClientIds, k \in ApiKeys,
          sel \in Selectors, loaded \in BOOLEAN :
          \/ stream("w1", q, h, cid, k, sel, loaded)
          \/ api_answer("w1", q, h, cid, k, sel, loaded)
    \/ StreamStep("w1")
    \/ AnswerStep("w1")
    \/ \E id \in DOMAIN conversations : delete_conversation(id)

Spec == Init /\ [][Next]_vars

----------------------------------------------------------------------------
(* Properties of the event stream and of the conversation store *)

EventKind(e) == IF "type" \in DOMAIN e THEN e.type ELSE "answer"

KindRank(k) ==
    CASE k = "source" -> 1 [] k = "answer" -> 2 [] k = "id" -> 3 [] OTHER -> 4

EventsOfKind(w, k) == SelectSeq(emitted[w], LAMBDA e : EventKind(e) = k)

RECURSIVE ConcatAnswers(_)
ConcatAnswers(evs) ==
    IF evs = <<>> THEN "" ELSE Head(evs).answer \o ConcatAnswers(Tail(evs))

IsStream(w) == data[w].endpoint = "stream"
IsAnswer(w) == data[w].endpoint = "answer"

StreamPersisted(w) == pc[w] = "persist" /\ pc'[w] = "emit_id" /\ conversation_id[w] # None
AnswerPersisted(w) ==
    pc[w] = "answer_persist" /\ pc'[w] = "answer_return" /\ conversation_id[w] # None

\* C2: a supplied identifier that resolves to no conversation makes the
\* persistence step fail (the request does not go on to its id and end events
\* or to a successful result), and no conversation is created by the step.
C2_UnknownIdFails ==
    [][\A w \in Workers :
          (/\ pc[w] \in {"persist", "answer_persist"}
           /\ conversation_id[w] # None
           /\ conversation_id[w] \notin DOMAIN conversations)
          => /\ pc'[w] \notin {"emit_id", "answer_return"}
             /\ DOMAIN conversations' \subseteq DOMAIN conversations]_vars

\* The query record a request persists
PersistedQuery(w) ==
    IF IsStream(w)
    THEN Query(data[w].question, reponse_full[w], source_log_docs[w])
    ELSE Query(data[w].question, result[w].answer, result[w].sources)

CallsOf(w, op) == SelectSeq(calls[w], LAMBDA c : c.op = op)

\* The step in which a request without identifier stores its conversation
Inserted(w) ==
    pc[w] \in {"insert", "answer_insert"} /\ pc'[w] \in {"emit_id", "answer_return"}

\* C4: a successful request without identifier creates exactly one
\* conversation, holding exactly the one query record of this turn, and
\* returns its non-empty identifier; the summary call changes no conversation
\* and is made only by requests without identifier.
C4_CreateOnce ==
    /\ [](\A w \in Workers :
            /\ CallsOf(w, "summary") # <<>> => data[w].conversation_id = None
            /\ (pc[w] = "done" /\ data[w].conversation_id = None) =>
                  /\ Len(CallsOf(w, "insert_one")) = 1
                  /\ Len(CallsOf(w, "summary")) = 1
                  /\ CallsOf(w, "update_one") = <<>>
                  /\ conversation_id[w] \in IssuedIds
                  /\ Len(conversation_id[w]) > 0
                  /\ IsStream(w) => emitted[w][Len(emitted[w]) - 1].id = conversation_id[w]
                  /\ IsAnswer(w) => result[w].conversation_id = conversation_id[w])
    /\ [][\A w \in Workers :
            /\ Inserted(w) =>
                  LET c == conversation_id'[w] IN
                  /\ c \notin DOMAIN conversations
                  /\ DOMAIN conversations' = DOMAIN conversations \cup {c}
                  /\ conversations'[c].queries = <<PersistedQuery(w)>>
                  /\ \A d \in DOMAIN conversations : conversations'[d] = conversations[d]
            /\ Len(CallsOf(w, "summary"))' > Len(CallsOf(w, "summary")) =>
                  conversations' = conversations]_vars

\* A request without identifier completed and its conversation is stored
C4_Witness ==
    /\ pc["w1"] = "done"
    /\ data["w1"].conversation_id = None
    /\ conversation_id["w1"] \in DOMAIN conversations
    /\ Len(conversations[conversation_id["w1"]].queries) = 1

----------------------------------------------------------------------------
(* api_answer over the outputs a chain can return *)

\* pieces a raw output is put together from, and how many of them
MaxPieces == 3
Pieces == {"a", "SOURCES:", "SOURCES", ":", "\\n"}

RECURSIVE TextsOf(_)
TextsOf(n) ==
    IF n = 0 THEN {""}
    ELSE LET shorter == TextsOf(n - 1) IN
         shorter \cup {t \o p : t \in shorter, p \in Pieces}

InitStrip ==
    InitWith({[DefaultSettings EXCEPT !.LLM_NAME = name] : name \in {"openai_chat", "openai"}})

NextStrip ==
    \/ started = 0 /\ api_answer("w1", "q1", <<>>, None, "k1", Absent, TRUE)
    \/ SelectBackend("w1")
    \/ \E t \in TextsOf(MaxPieces) : RunChain("w1", Ok(t))
    \/ AnswerSources("w1", Ok(<<Passage2>>))
    \/ AnswerSummary("w1", Ok("short title"))
    \/ AnswerInsertOne("w1", TRUE)
    \/ AnswerReturn("w1")

SpecStrip == InitStrip /\ [][NextStrip]_vars

Formatted(w) ==
    IsAnswer(w) /\ pc[w] \in {"answer_sources", "answer_persist", "answer_insert",
                              "answer_return", "done"}

\* C5: the answer api_answer returns, and the response it stores in the
\* conversation, is the chain's output up to the first 'SOURCES:' marker: it
\* holds neither the marker nor the text behind it.
C5_AnswerWithoutSources ==
    /\ \A w \in Workers : Formatted(w) =>
          LET text == Replace(chain_output[w], "\\n", "\n")
              at == Find(text, "SOURCES:", 1)
          IN  /\ ~Contains(result[w].answer, "SOURCES:")
              /\ result[w].answer = IF at = 0 THEN text ELSE SubSeq(text, 1, at - 1)
              /\ conversation_id[w] \in DOMAIN conversations =>
                    Last(conversations[conversation_id[w]].queries).response
                        = result[w].answer
    /\ \A c \in DOMAIN conversations :
          \A k \in 1..Len(conversations[c].queries) :
              ~Contains(conversations[c].queries[k].response, "SOURCES:")

\* A returned result whose chain output held text, the marker and more text
C5_Witness ==
    /\ pc["w1"] = "done"
    /\ chain_output["w1"] = "aSOURCES:a"
    /\ result["w1"].answer = "a"
    /\ conversation_id["w1"] \in DOMAIN conversations

----------------------------------------------------------------------------
(* Prompt assembly over the histories a client can send *)

\* turns in a history
MaxHistory == 3
TurnPool == {Turn("p1", "r1"), Turn("p2", "r2"), Turn("pp3", "rr3"), Turn("p4", Absent)}

RECURSIVE HistoriesOf(_)
HistoriesOf(n) ==
    IF n = 0 THEN {<<>>}
    ELSE LET shorter == HistoriesOf(n - 1) IN
         shorter \cup {Append(h, t) : h \in shorter, t \in TurnPool}

InitBudget ==
    InitWith({[DefaultSettings EXCEPT !.TOKENS_MAX_HISTORY = m] : m \in {0, 5, 9, 150}})

NextBudget ==
    \/ \E h \in HistoriesOf(MaxHistory) :
          /\ started = 0
          /\ \/ stream("w1", "q1", h, None, "k1", Absent, TRUE)
             \/ api_answer("w1", "q1", h, None, "k1", Absent, TRUE)
    \/ StreamBegin("w1", Ok(<<Passage2>>))
    \/ EmitSource("w1")
    \/ CallBackend("w1", TRUE)
    \/ SelectBackend("w1")

SpecBudget == InitBudget /\ [][NextBudget]_vars

\* messages_combine is complete: the request is about to call its backend
Assembled(w) == pc[w] \in {"generating", "chain"}

\* The history turns found in messages_combine between the system message and
\* the final question, in the order they appear
RetainedTurns(w) ==
    LET m == messages_combine[w] IN
    [i \in 1..((Len(m) - 2) \div 2) |-> Turn(m[2 * i].content, m[2 * i + 1].content)]

AllHaveBoth(h) == \A i \in 1..Len(h) : HasBoth(h[i])

RECURSIVE TotalCost(_)
TotalCost(h) ==
    IF h = <<>> THEN 0
    ELSE get_num_tokens(Head(h).prompt) + get_num_tokens(Head(h).response)
         + TotalCost(Tail(h))

\* C6: a history of at most one turn reaches the prompt unchanged: the single
\* prior turn is in messages_combine, neither budgeted away nor dropped, in
\* complete_stream and in api_answer.
C6_ShortHistoryUnchanged ==
    \A w \in Workers :
        (Assembled(w) /\ Len(data[w].history) <= 1 /\ AllHaveBoth(data[w].history))
        => RetainedTurns(w) = data[w].history

\* C7: when the cost of all turns together is below TOKENS_MAX_HISTORY, every
\* turn is in messages_combine and the turns are in chronological order,
\* oldest first, the most recent right before the question.
C7_FittingHistoryInOrder ==
    \A w \in Workers :
        (/\ Assembled(w)
         /\ AllHaveBoth(data[w].history)
         /\ TotalCost(data[w].history) < settings.TOKENS_MAX_HISTORY)
        => RetainedTurns(w) = data[w].history

----------------------------------------------------------------------------
(* Backend selection and the calls made before it *)

\* C8: with a model configuration that matches no backend, api_answer fails
\* with the configuration error before it has attempted an index load, a
\* retrieval or a backend call.
C8_ConfigErrorBeforeCalls ==
    \A w \in Workers :
        (IsAnswer(w) /\ ~select_llm(settings).ok) => calls[w] = <<>>

----------------------------------------------------------------------------
(* Vector store resolution over the selectors a client can send *)

\* path components in a selector
MaxParts == 3
SelectorParts == {"local", "default", "docs", ""}

RECURSIVE SelectorsOf(_)
SelectorsOf(n) ==
    IF n = 1 THEN SelectorParts
    ELSE LET shorter == SelectorsOf(n - 1) IN
         shorter \cup {s \o "/" \o p : s \in shorter, p \in SelectorParts}

NextResolve ==
    \E sel \in SelectorsOf(MaxParts) \cup {Absent}, loaded \in BOOLEAN :
        \/ stream("w1", "q1", <<>>, None, "k1", sel, loaded)
        \/ api_answer("w1", "q1", <<>>, None, "k1", sel, loaded)

SpecResolve == InitWith({DefaultSettings}) /\ [][NextResolve]_vars

\* The handler resolved the selector and went on to load the index
Resolved(w) == calls[w] # <<>>

StartsWith(s, prefix) == Len(s) >= Len(prefix) /\ SubSeq(s, 1, Len(prefix)) = prefix

\* C9: "local/default", "default" and an absent selector resolve to one and
\* the same path, under /api/answer and under /stream, and the path lies
\* under the application directory.
C9_DefaultSelectorsAgree ==
    \A w \in Workers :
        (Resolved(w) /\ data[w].active_docs \in {"local/default", "default", Absent})
        => /\ vectorstore[w] = get_vectorstore("default").value
           /\ StartsWith(vectorstore[w], "application")

\* C10: resolution returns a path for every selector and never raises, also
\* for a selector without "/" such as a bare "local": every request gets as
\* far as loading the index at the resolved path.
C10_ResolutionNeverRaises ==
    \A w \in Workers :
        data[w].endpoint # "" => Resolved(w) /\ response[w].error # "IndexError"

----------------------------------------------------------------------------
(* Failures of a request *)

\* C11: a run of complete_stream that fails in the backend call, the summary
\* call or the store write has emitted neither an id nor an end event, its
\* events being source events followed by answer events; an id event is there
\* only after the store call of the persistence step, an end event only when
\* the generator has returned after it.
C11_NoEndAfterFailure ==
    \A w \in Workers : IsStream(w) =>
        /\ pc[w] = "aborted" =>
              /\ \A i \in 1..Len(emitted[w]) :
                    EventKind(emitted[w][i]) \in {"source", "answer"}
              /\ \A i, j \in 1..Len(emitted[w]) :
                    (i < j /\ EventKind(emitted[w][j]) = "source")
                    => EventKind(emitted[w][i]) = "source"
        /\ EventsOfKind(w, "id") # <<>> =>
              /\ pc[w] \in {"emit_end", "done"}
              /\ CallsOf(w, "update_one") \o CallsOf(w, "insert_one") # <<>>
        /\ EventsOfKind(w, "end") # <<>> =>
              /\ pc[w] = "done"
              /\ EventsOfKind(w, "id") # <<>>
              /\ ConcatAnswers(EventsOfKind(w, "answer")) = reponse_full[w]

\* The insert of a stream failed after both passages and two increments
C11_Witness ==
    /\ IsStream("w1")
    /\ pc["w1"] = "aborted"
    /\ CallsOf("w1", "insert_one") # <<>>
    /\ Len(EventsOfKind("w1", "source")) = 2
    /\ Len(EventsOfKind("w1", "answer")) = 2

\* A step of the api_answer request of w
AnswerActs(w) == IsAnswer(w)' /\ (calls'[w] # calls[w] \/ pc'[w] # pc[w] \/ started' # started)

\* C12: api_answer answers a failure at any of its steps with the error
\* response, never with a result, and the failing request has changed no
\* conversation: a step that ends in the error changes nothing in the store,
\* and once the request has written to the store it fails no more.
C12_FailureLeavesStore ==
    /\ [](\A w \in Workers : IsAnswer(w) =>
             /\ pc[w] = "error" =>
                   /\ response[w].status = 500
                   /\ response[w].error # ""
                   /\ result[w].conversation_id = None
                   /\ conversation_id[w] = data[w].conversation_id
             /\ pc[w] = "done" => response[w] = [status |-> 200, error |-> ""])
    /\ [][\A w \in Workers : AnswerActs(w) =>
             /\ pc'[w] = "error" => conversations' = conversations
             /\ conversations' # conversations => pc'[w] = "answer_return"
             /\ pc[w] = "answer_return" => pc'[w] = "done"]_vars

\* The insert of an api_answer request failed and nothing is stored
C12_Witness ==
    /\ IsAnswer("w1")
    /\ pc["w1"] = "error"
    /\ response["w1"].error = "StoreFailure"
    /\ CallsOf("w1", "insert_one") # <<>>
    /\ DOMAIN conversations = {}

\* C13: every content increment of the completion is yielded once, as the
\* next answer event, and appended to reponse_full in the same step; the
\* response complete_stream stores is the concatenation of the payloads of the
\* answer events in emission order.
C13_PersistedIsConcatenation ==
    /\ [](\A w \in Workers :
             (/\ IsStream(w)
              /\ pc[w] \in {"emit_id", "emit_end", "done"}
              /\ conversation_id[w] \in DOMAIN conversations)
             => Last(conversations[conversation_id[w]].queries).response
                    = ConcatAnswers(EventsOfKind(w, "answer")))
    /\ [][\A w \in Workers :
             (pc[w] = "generating" /\ pc'[w] = "generating") =>
                \/ emitted'[w] = emitted[w] /\ reponse_full'[w] = reponse_full[w]
                \/ \E d \in Deltas \ {Absent} :
                      /\ emitted'[w] = Append(emitted[w], [answer |-> d])
                      /\ reponse_full'[w] = reponse_full[w] \o d]_vars

\* A stream stored the response made of the increments "b" and "a"
C13_Witness ==
    /\ IsStream("w1")
    /\ pc["w1"] = "emit_id"
    /\ EventsOfKind("w1", "answer") = <<[answer |-> "b"], [answer |-> "a"]>>
    /\ conversation_id["w1"] \in DOMAIN conversations
    /\ Last(conversations[conversation_id["w1"]].queries).response = "ba"

----------------------------------------------------------------------------
(* The budgeting rule and the shape of the prompt *)

TurnCost(turn) == get_num_tokens(turn.prompt) + get_num_tokens(turn.response)

\* The cost of the turns of h at the positions of I below position i
RECURSIVE IncludedCost(_, _, _)
IncludedCost(h, I, i) ==
    IF i <= 1 THEN 0
    ELSE IncludedCost(h, I, i - 1) + (IF (i - 1) \in I THEN TurnCost(h[i - 1]) ELSE 0)

\* The turns of h at the positions of I, from position i on
RECURSIVE Pick(_, _, _)
Pick(h, I, i) ==
    IF i > Len(h) THEN <<>>
    ELSE (IF i \in I THEN <<h[i]>> ELSE <<>>) \o Pick(h, I, i + 1)

\* I holds exactly the positions of the scan order h whose turn, added to the
\* turns included before it, stays strictly below max
FollowsBudgetRule(h, I, max) ==
    \A i \in 1..Len(h) :
        i \in I <=> (HasBoth(h[i]) /\ IncludedCost(h, I, i) + TurnCost(h[i]) < max)

\* The handler runs the scan over this history
ScanRuns(w) ==
    IF IsStream(w) THEN Len(data[w].history) > 1 ELSE data[w].history # <<>>

C15_MessageShape ==
    \A w \in Workers : Assembled(w) =>
        LET m == messages_combine[w]
            n == (Len(m) - 2) \div 2
        IN  /\ Len(m) = 2 * n + 2
            /\ m[1].role = "system"
            /\ m[Len(m)].role = "user"
            /\ IsStream(w) => m[Len(m)].content = data[w].question
            /\ \A i \in 1..n :
                  /\ m[2 * i].role = "user"
                  /\ m[2 * i + 1].role = "assistant"
                  /\ \E k \in 1..Len(data[w].history) :
                        data[w].history[k] = Turn(m[2 * i].content, m[2 * i + 1].content)

----------------------------------------------------------------------------
(* Two workers serving /stream at the same time *)

\* The credential each worker's client sends
ApiKeyOf(w) == IF w = "w1" THEN "k1" ELSE "k2"

\* Requests are handled by threads of one process: between two steps of one
\* generator the other may take any number of its own
NextConcurrent ==
    \E w \in Workers :
        \/ \E cid \in {None} \cup IssuedIds :
              stream(w, "q1", <<>>, cid, ApiKeyOf(w), Absent, TRUE)
        \/ StreamBegin(w, Ok(<<Passage2>>))
        \/ EmitSource(w)
        \/ CallBackend(w, TRUE)
        \/ StreamLine(w, "a")
        \/ StreamStop(w, TRUE)
        \/ StreamUpdateOne(w, TRUE)
        \/ StreamSummary(w, Ok("short title"))
        \/ StreamInsertOne(w, TRUE)
        \/ EmitId(w)
        \/ EmitEnd(w)

SpecConcurrent == InitWith({DefaultSettings}) /\ [][NextConcurrent]_vars

\* C16: the streamed completion and the summary call of a request are made
\* with the credential of that request, whatever another request does in
\* between.
C16_OwnCredential ==
    \A w \in Workers : IsStream(w) =>
        \A i \in 1..Len(calls[w]) :
            calls[w][i].op \in {"chat_completion", "summary"}
            => calls[w][i].api_key = data[w].api_key

----------------------------------------------------------------------------
(* api_answer over the model configurations *)

LLMNames == {"openai_chat", "openai", "cohere", "llama"}

InitSelect ==
    InitWith({[DefaultSettings EXCEPT !.LLM_NAME = name, !.SELF_HOSTED_MODEL = hosted] :
                 name \in LLMNames, hosted \in BOOLEAN})

NextSelect ==
    \/ \E cid \in {None} \cup IssuedIds, loaded \in BOOLEAN :
          api_answer("w1", "q1", <<>>, cid, "k1", Absent, loaded)
    \/ AnswerStep("w1")

SpecSelect == InitSelect /\ [][NextSelect]_vars

\* The backend the precedence chat model, completion model, self-hosted,
\* alternative provider gives a configuration; None when nothing matches
FirstMatch(cfg) ==
    CASE cfg.LLM_NAME = "openai_chat" -> "openai_chat"
      [] cfg.LLM_NAME = "openai" -> "openai"
      [] cfg.LLM_NAME \notin {"openai_chat", "openai"} /\ cfg.SELF_HOSTED_MODEL -> "hf"
      [] cfg.LLM_NAME = "cohere" /\ ~cfg.SELF_HOSTED_MODEL -> "cohere"
      [] OTHER -> None

\* The request is past the backend selection
Selected(w) == IsAnswer(w) /\ (llm[w] # None \/ response[w].error = "unknown LLM model")

\* C17: api_answer selects the first match of the precedence, answers a
\* configuration that matches nothing with the error "unknown LLM model", and
\* with every configuration that matches a backend goes on to run a chain
\* with that backend: the chain construction fails for none of them.
C17_SelectionProceeds ==
    \A w \in Workers : Selected(w) =>
        /\ FirstMatch(settings) = None <=> response[w].error = "unknown LLM model"
        /\ FirstMatch(settings) # None =>
              /\ llm[w] = FirstMatch(settings)
              /\ response[w].error # "UnboundLocalError"
              /\ pc[w] # "chain" => CallsOf(w, "chain_llm") # <<>>

\* C18: api_answer with the chat model and a non-empty history runs the
\* condensation of the question, with the caller's history, before the
\* retrieval and the answer generation of the chain.
C18_CondenseWithHistory ==
    \A w \in Workers :
        (/\ IsAnswer(w)
         /\ llm[w] = "openai_chat"
         /\ data[w].history # <<>>
         /\ CallsOf(w, "chain_llm") # <<>>)
        => /\ chain_chat_history(data[w].history) = data[w].history
           /\ \E i, j \in 1..Len(calls[w]) :
                 /\ i < j
                 /\ calls[w][i].op = "condense_question"
                 /\ calls[w][j].op = "chain_retrieval"

----------------------------------------------------------------------------
(* complete_stream over the texts a completion can deliver *)

NextStreamText ==
    \/ started = 0 /\ stream("w1", "q1", <<>>, None, "k1", Absent, TRUE)
    \/ StreamBegin("w1", Ok(<<Passage2>>))
    \/ EmitSource("w1")
    \/ CallBackend("w1", TRUE)
    \/ \E delta \in Pieces : StreamLine("w1", delta)
    \/ StreamStop("w1", TRUE)
    \/ StreamSummary("w1", Ok("short title"))
    \/ StreamInsertOne("w1", TRUE)
    \/ EmitId("w1")
    \/ EmitEnd("w1")

SpecStreamText == InitWith({DefaultSettings}) /\ [][NextStreamText]_vars

\* C19: the response complete_stream stores holds neither the marker
\* 'SOURCES:' nor the text behind it, whatever the increments hold.
C19_StreamResponseWithoutSources ==
    \A c \in DOMAIN conversations :
        \A k \in 1..Len(conversations[c].queries) :
            ~Contains(conversations[c].queries[k].response, "SOURCES:")

----------------------------------------------------------------------------
(* complete_stream when nothing it calls fails *)

\* The steps of the generator; the response is iterated until it is exhausted
\* and every call made here returns
LiveStep(w) ==
    \/ StreamBegin(w, Ok(<<Passage1, Passage2>>))
    \/ EmitSource(w)
    \/ CallBackend(w, TRUE)
    \/ \E delta \in Deltas : StreamLine(w, delta)
    \/ StreamStop(w, TRUE)
    \/ StreamUpdateOne(w, TRUE)
    \/ StreamSummary(w, Ok("short title"))
    \/ StreamInsertOne(w, TRUE)
    \/ EmitId(w)
    \/ EmitEnd(w)

NextLive ==
    \/ \E cid \in ClientIds : stream("w1", "q1", <<>>, cid, "k1", Absent, TRUE)
    \/ LiveStep("w1")

SpecLive == InitWith({DefaultSettings}) /\ [][NextLive]_vars /\ WF_vars(LiveStep("w1"))

EndsOnce(w) == pc[w] = "done" /\ Len(EventsOfKind(w, "end")) = 1

\* C20 as stated: when the retrieval succeeds, the completion delivers a
\* finite sequence of increments and neither the backend nor the store fails,
\* every run of complete_stream reaches its end event and returns, and there
\* is one end event.
C20_StreamEnds ==
    /\ [](\A w \in Workers : Len(EventsOfKind(w, "end")) <= 1)
    /\ \A w \in Workers : (pc[w] = "stream_begin") ~> EndsOnce(w)

\* The identifier of the request is None or one ObjectId() accepts
WellFormedId(w) == conversation_id[w] = None \/ ObjectIdValid(conversation_id[w])

\* C20, amended: under the same conditions every run of complete_stream whose
\* conversation_id is None or a well-formed ObjectId reaches its end event and
\* returns; the end event is yielded once and is the last event.
C20_StreamEndsWellFormed ==
    /\ [](\A w \in Workers :
             /\ Len(EventsOfKind(w, "end")) <= 1
             /\ (IsStream(w) /\ pc[w] = "done") => Last(emitted[w]) = [type |-> "end"])
    /\ \A w \in Workers : (pc[w] = "stream_begin" /\ WellFormedId(w)) ~> EndsOnce(w)

\* A second stream appended to the conversation of the first and ended
C20_Witness ==
    /\ IsStream("w1")
    /\ EndsOnce("w1")
    /\ data["w1"].conversation_id \in IssuedIds
    /\ started = 2

----------------------------------------------------------------------------
(* The identifier complete_stream reports *)

\* C21: an id event is emitted after the store call of the persistence step
\* and carries the identifier of a conversation that is in the store and
\* holds the record of this turn. Stated where no conversation is deleted.
C21_IdNamesStoredTurn ==
    \A w \in Workers : IsStream(w) =>
        \A i \in 1..Len(emitted[w]) :
            EventKind(emitted[w][i]) = "id" =>
                /\ CallsOf(w, "update_one") \o CallsOf(w, "insert_one") # <<>>
                /\ emitted[w][i].id \in DOMAIN conversations
                /\ \E k \in 1..Len(conversations[emitted[w][i].id].queries) :
                      conversations[emitted[w][i].id].queries[k] = PersistedQuery(w)

----------------------------------------------------------------------------
(* Two workers appending to one conversation at the same time *)

\* The conversation both requests name, stored by an earlier request
EarlierTurn == Query("q0", "r0", <<>>)
SharedId == NewObjectId(1)

InitAppend ==
    /\ settings = DefaultSettings
    /\ openai_api_key = None
    /\ conversations = insert_one(<<>>, SharedId, new_conversation("short title", EarlierTurn))
    /\ pc = [w \in Workers |-> "idle"]
    /\ data = [w \in Workers |-> IdleData]
    /\ vectorstore = [w \in Workers |-> ""]
    /\ docs = [w \in Workers |-> <<>>]
    /\ source_log_docs = [w \in Workers |-> <<>>]
    /\ messages_combine = [w \in Workers |-> <<>>]
    /\ reponse_full = [w \in Workers |-> ""]
    /\ llm = [w \in Workers |-> None]
    /\ chain_output = [w \in Workers |-> ""]
    /\ result = [w \in Workers |-> NoResult]
    /\ conversation_id = [w \in Workers |-> None]
    /\ emitted = [w \in Workers |-> <<>>]
    /\ response = [w \in Workers |-> NoResponse]
    /\ completion = [w \in Workers |-> ""]
    /\ calls = [w \in Workers |-> <<>>]
    /\ started = 0
    /\ issued = 1

\* Each worker serves one request, /stream or /api/answer, for SharedId; the
\* steps of the two interleave in every order
NextAppend ==
    \E w \in Workers :
        \/ \E q \in {"q1", "q2"} :
              /\ pc[w] = "idle"
              /\ \/ stream(w, q, <<>>, SharedId, ApiKeyOf(w), Absent, TRUE)
                 \/ api_answer(w, q, <<>>, SharedId, ApiKeyOf(w), Absent, TRUE)
        \/ StreamBegin(w, Ok(<<Passage1>>))
        \/ EmitSource(w)
        \/ CallBackend(w, TRUE)
        \/ StreamLine(w, "a")
        \/ StreamStop(w, TRUE)
        \/ StreamUpdateOne(w, TRUE)
        \/ EmitId(w)
        \/ EmitEnd(w)
        \/ SelectBackend(w)
        \/ RunChain(w, Ok("a"))
        \/ AnswerSources(w, Ok(<<Passage1>>))
        \/ AnswerUpdateOne(w, TRUE)
        \/ AnswerReturn(w)

SpecAppend == InitAppend /\ [][NextAppend]_vars

\* The request of w has made its update_one
Appended(w) == CallsOf(w, "update_one") # <<>>

\* C22: whatever the interleaving of two requests that append to the same
\* conversation, each update_one adds its record in one step: the queries are
\* the earlier records, unchanged, followed by the records of the requests
\* that have made their update, each once, in either order; after both the
\* list has grown by exactly two.
C22_ConcurrentAppends ==
    /\ [](LET q == conversations[SharedId].queries
              r1 == PersistedQuery("w1")
              r2 == PersistedQuery("w2")
          IN  /\ DOMAIN conversations = {SharedId}
              /\ q[1] = EarlierTurn
              /\ Tail(q) \in CASE Appended("w1") /\ Appended("w2") ->
                                      {<<r1, r2>>, <<r2, r1>>}
                               [] Appended("w1") /\ ~Appended("w2") -> {<<r1>>}
                               [] ~Appended("w1") /\ Appended("w2") -> {<<r2>>}
                               [] OTHER -> {<<>>})
    /\ [][\A w \in Workers :
             (~Appended(w) /\ Appended(w)') =>
                 conversations' = [conversations EXCEPT ![SharedId].queries =
                                      Append(@, PersistedQuery(w)')]]_vars

\* Both requests are done, a stream and an api_answer, the stream's record
\* stored behind the other's
C22_Witness ==
    /\ pc["w1"] = "done" /\ pc["w2"] = "done"
    /\ IsStream("w1") /\ IsAnswer("w2")
    /\ Len(conversations[SharedId].queries) = 3
    /\ conversations[SharedId].queries[3] = PersistedQuery("w1")
    /\ conversations[SharedId].queries[2] = PersistedQuery("w2")

====
